---- MODULE Spec2Model ----
(***************************************************************************)
(* Model of gl_cli.py: the credential store (save_config / load_config /   *)
(* get_gitlab_instance) and the three bulk synchronisation commands        *)
(* (clone, clone_overwrite, clone_update).                                 *)
(*                                                                         *)
(* Strings are sequences of one-character strings, so that the string      *)
(* conversions of the program (configparser write/read/interpolation,      *)
(* str.replace) are computed and not assumed.  Python's None is the        *)
(* one-element sequence <<"None">>, which no character string equals.      *)
(***************************************************************************)
EXTENDS Integers, Sequences, FiniteSets, TLC

VARIABLES configFile, env, url, token, gl, lastSave,
          command, pc, idx, fs, fs0, log

vars == <<configFile, env, url, token, gl, lastSave,
          command, pc, idx, fs, fs0, log>>

(* ------------------------------ bounds --------------------------------- *)

\* longest url / token typed into the config command
MaxLen == 2

\* number of projects the platform lists
MaxProjects == 3

(* ------------------------------ strings -------------------------------- *)

None == <<"None">>

\* characters of the values given to the config command: an ordinary
\* character, the interpolation character and white space
Alphabet == {"a", "%", " "}

Strings(n) == UNION {[1..k -> Alphabet] : k \in 0..n}

Range(s) == {s[i] : i \in DOMAIN s}

StartsWith(s, p) == Len(s) >= Len(p) /\ SubSeq(s, 1, Len(p)) = p

RECURSIVE Replace(_, _, _)
\* str.replace(old, new) for a non-empty old: every non-overlapping
\* occurrence, left to right
Replace(s, old, new) ==
    IF s = <<>> THEN <<>>
    ELSE IF StartsWith(s, old)
         THEN new \o Replace(SubSeq(s, Len(old) + 1, Len(s)), old, new)
         ELSE <<Head(s)>> \o Replace(Tail(s), old, new)

RECURSIVE LStrip(_)
LStrip(s) == IF s # <<>> /\ Head(s) = " " THEN LStrip(Tail(s)) ELSE s

RECURSIVE RStrip(_)
RStrip(s) ==
    IF s # <<>> /\ s[Len(s)] = " " THEN RStrip(SubSeq(s, 1, Len(s) - 1)) ELSE s

\* str.strip()
Strip(s) == RStrip(LStrip(s))

\* truth value of a Python str-or-None
Falsy(v) == v = None \/ v = <<>>

\* a or b with the operands exchanged: the file value wins over the
\* environment
Or_PreferSecond(a, b) == IF Falsy(b) THEN a ELSE b

\* Python's  a or b
Or(a, b) == IF Falsy(a) THEN b ELSE a

(* --------------------------- configparser ------------------------------ *)

KeyUrl == <<"u", "r", "l">>
KeyToken == <<"t", "o", "k", "e", "n">>
Header == <<"[", "D", "E", "F", "A", "U", "L", "T", "]">>
Delimiter == <<" ", "=", " ">>

\* the config file does not exist (configparser.read skips a missing file,
\* which reads the same as a file without lines)
NoFile == <<>>

\* raised by an interpolation that meets a '%' it cannot expand
Raised == <<"InterpolationSyntaxError">>

\* BasicInterpolation.before_set: after dropping every "%%" no '%' may
\* remain ("%(name)s" references cannot be spelled over Alphabet)
BeforeSetOk(v) == "%" \notin Range(Replace(v, <<"%", "%">>, <<>>))

\* ConfigParser.write of the DEFAULT section holding url and token
WriteConfig(u, t) ==
    << Header, KeyUrl \o Delimiter \o u, KeyToken \o Delimiter \o t, <<>> >>

\* position of the first '=' or ':' of a line, 0 if there is none
IndexOfDelim(line) ==
    IF \E i \in DOMAIN line : line[i] \in {"=", ":"}
    THEN CHOOSE i \in DOMAIN line :
            /\ line[i] \in {"=", ":"}
            /\ \A j \in 1..(i - 1) : line[j] \notin {"=", ":"}
    ELSE 0

IsOptionLine(line) ==
    /\ Strip(line) # <<>>
    /\ Head(Strip(line)) # "["
    /\ IndexOfDelim(line) > 0

\* option name and value of an option line: both are stripped
ParseOption(line) ==
    LET d == IndexOfDelim(line)
    IN [option |-> Strip(SubSeq(line, 1, d - 1)),
        value  |-> Strip(SubSeq(line, d + 1, Len(line)))]

\* ConfigParser.read: the raw (uninterpolated) value of every option
ReadConfig(lines) ==
    [k \in {KeyUrl, KeyToken} |->
        IF \E i \in DOMAIN lines :
              IsOptionLine(lines[i]) /\ ParseOption(lines[i]).option = k
        THEN ParseOption(lines[CHOOSE i \in DOMAIN lines :
              IsOptionLine(lines[i]) /\ ParseOption(lines[i]).option = k]).value
        ELSE None]

RECURSIVE Interpolate(_)
\* BasicInterpolation.before_get: "%%" reads as "%"
Interpolate(v) ==
    IF v = <<>> THEN <<>>
    ELSE IF Head(v) # "%" THEN
        LET r == Interpolate(Tail(v))
        IN IF r = Raised THEN Raised ELSE <<Head(v)>> \o r
    ELSE IF Len(v) >= 2 /\ v[2] = "%" THEN
        LET r == Interpolate(SubSeq(v, 3, Len(v)))
        IN IF r = Raised THEN Raised ELSE <<"%">> \o r
    ELSE Raised

\* config.get("DEFAULT", key, fallback=None)
ConfigGet(config, key) ==
    IF config[key] = None THEN None ELSE Interpolate(config[key])

load_config(file) == ReadConfig(file)

(* ------------------------------ session -------------------------------- *)

\* os.environ restricted to the two variables the program reads; an unset
\* variable reads as None
EnvOf(u, t) == [GITLAB_URL |-> u, GITLAB_TOKEN |-> t]

\* a variable is unset, set to the empty string, or set to a value
EnvValues == {None, <<>>, <<"e">>}

Envs == {EnvOf(u, t) : u \in EnvValues, t \in EnvValues}

\* outcomes of gitlab.Gitlab(url, private_token).auth()
AuthOutcomes == {"ok", "GitlabAuthenticationError", "Exception"}

NoSession == [session |-> FALSE, url |-> None, private_token |-> None]

Session(u, t) == [session |-> TRUE, url |-> u, private_token |-> t]

\* one observable effect of a command: op is the call, proj the position of
\* the project in the listing (0 when none), arg its path or URL argument,
\* rc the exit status (0 for calls that have none)
Ev(op, proj, arg, rc) == [op |-> op, proj |-> proj, arg |-> arg, rc |-> rc]

\* get_gitlab_instance with line 60 reading "not url and not token"
get_gitlab_instance_And(file, e, auth) ==
    LET config == ReadConfig(file)
        u == IF Falsy(e.GITLAB_URL) THEN ConfigGet(config, KeyUrl) ELSE e.GITLAB_URL
        t == IF Falsy(e.GITLAB_TOKEN) THEN ConfigGet(config, KeyToken) ELSE e.GITLAB_TOKEN
    IN IF Falsy(u) /\ Falsy(t)
       THEN [url |-> u, token |-> t, gl |-> NoSession, events |-> <<>>,
             raised |-> FALSE]
       ELSE [url |-> u, token |-> t,
             gl |-> IF auth = "ok" THEN Session(u, t) ELSE NoSession,
             events |-> <<Ev("auth", 0, u, IF auth = "ok" THEN 0 ELSE 1)>>,
             raised |-> FALSE]

\* get_gitlab_instance: the resolved url and token, the session or None,
\* and the calls made
get_gitlab_instance(file, e, auth) ==
    LET config == load_config(file)
        u == Or(e.GITLAB_URL, ConfigGet(config, KeyUrl))
        t == Or(e.GITLAB_TOKEN, ConfigGet(config, KeyToken))
    IN IF u = Raised \/ t = Raised
       THEN [url |-> u, token |-> t, gl |-> NoSession, events |-> <<>>,
             raised |-> TRUE]
       ELSE IF Falsy(u) \/ Falsy(t)
       THEN [url |-> u, token |-> t, gl |-> NoSession, events |-> <<>>,
             raised |-> FALSE]
       ELSE [url |-> u, token |-> t,
             gl |-> IF auth = "ok" THEN Session(u, t) ELSE NoSession,
             events |-> <<Ev("auth", 0, u, IF auth = "ok" THEN 0 ELSE 1)>>,
             raised |-> FALSE]

(* ------------------------------ projects ------------------------------- *)

Projects == 1..MaxProjects

\* project.path_with_namespace, as its '/'-separated segments
path_with_namespace(i) == <<IF i % 3 = 0 THEN "h" ELSE "g", ToString(i)>>

Https == <<"h", "t", "t", "p", "s", ":", "/", "/">>
Http == <<"h", "t", "t", "p", ":", "/", "/">>

\* project.http_url_to_repo: the platform serves https or plain http
http_url_to_repo(i) == (IF i % 2 = 0 THEN Http ELSE Https) \o <<"x">>

\* the credential slot filled with the token
Credential(tok) == <<"o", "a", "u", "t", "h", "2", ":">> \o tok \o <<"@">>

\* line 96: the URL handed to git clone
clone_url(i, tok) == Replace(http_url_to_repo(i), Https, Https \o Credential(tok))

(* ----------------------------- file system ----------------------------- *)

\* the --dir argument
clone_dir == "work"

\* os.path.join(clone_dir, project.path_with_namespace)
repo_path(i) == <<clone_dir>> \o path_with_namespace(i)

\* os.path.dirname
dirname(p) == SubSeq(p, 1, Len(p) - 1)

IsPrefix(a, b) == Len(a) <= Len(b) /\ SubSeq(b, 1, Len(a)) = a

Paths == {SubSeq(repo_path(i), 1, k) : i \in Projects, k \in 1..3}

RepoPaths == {repo_path(i) : i \in Projects}

\* os.path.exists
Exists(f, p) == f[p] # "absent"

\* a tree: what exists has an existing parent directory; working copies
\* sit at project paths only
IsTree(f) ==
    \A p \in Paths :
        /\ p \in RepoPaths => f[p] \in {"absent", "repo", "partial"}
        /\ p \notin RepoPaths => f[p] \in {"absent", "dir"}
        /\ (Len(p) > 1 /\ Exists(f, p)) => f[dirname(p)] = "dir"

\* os.makedirs(p, exist_ok=True)
makedirs(f, p) ==
    [q \in Paths |-> IF IsPrefix(q, p) /\ f[q] = "absent" THEN "dir" ELSE f[q]]

\* a removal that removes nothing
rmtree_Keep(f, p) == f

\* shutil.rmtree(p)
rmtree(f, p) == [q \in Paths |-> IF IsPrefix(p, q) THEN "absent" ELSE f[q]]

\* git clone <url> p: a working copy on exit status 0; on failure nothing,
\* or whatever the interrupted clone left behind
git_clone(f, p, rc, partial) ==
    IF rc = 0 THEN [makedirs(f, dirname(p)) EXCEPT ![p] = "repo"]
    ELSE IF partial THEN [makedirs(f, dirname(p)) EXCEPT ![p] = "partial"]
    ELSE f

\* clone_or_update_repo cloning before it removes
clone_or_update_repo_CloneFirst(f, i, tok, overwrite, rc, partial) ==
    LET path == <<"work">> \o path_with_namespace(i)
        u == Replace(http_url_to_repo(i), Https, Https \o Credential(tok))
    IN IF f[path] # "absent" /\ ~overwrite
       THEN [fs |-> f, events |-> <<Ev("pull", i, path, rc)>>, ok |-> rc = 0]
       ELSE [fs |-> IF rc = 0 THEN [f EXCEPT ![path] = "repo"]
                    ELSE [f EXCEPT ![path] = "absent"],
             events |-> <<Ev("clone", i, u, rc)>>
                        \o (IF f[path] # "absent"
                            THEN <<Ev("rmtree", i, path, 0)>> ELSE <<>>),
             ok |-> rc = 0]

\* clone_or_update_repo with the overwrite flag stuck at True
clone_or_update_repo_AlwaysOverwrite(f, i, tok, overwrite, rc, partial) ==
    LET path == <<"work">> \o path_with_namespace(i)
        u == Replace(http_url_to_repo(i), Https, Https \o Credential(tok))
        removed == f[path] # "absent"
    IN [fs |-> IF rc = 0 THEN [f EXCEPT ![path] = "repo"]
               ELSE [f EXCEPT ![path] = "absent"],
        events |-> (IF removed THEN <<Ev("rmtree", i, path, 0)>> ELSE <<>>)
                   \o <<Ev("clone", i, u, rc)>>,
        ok |-> rc = 0]

\* lines 86-97: the file system after the call, the calls made in order,
\* and whether the call returned (FALSE: CalledProcessError)
clone_or_update_repo(f, i, tok, overwrite, rc, partial) ==
    LET path == repo_path(i)
    IN IF Exists(f, path) /\ ~overwrite
       THEN [fs |-> f, events |-> <<Ev("pull", i, path, rc)>>, ok |-> rc = 0]
       ELSE LET removed == Exists(f, path)
                f1 == IF removed THEN rmtree(f, path) ELSE f
            IN [fs |-> git_clone(f1, path, rc, partial),
                events |-> (IF removed THEN <<Ev("rmtree", i, path, 0)>> ELSE <<>>)
                           \o <<Ev("clone", i, clone_url(i, tok), rc)>>,
                ok |-> rc = 0]

\* subprocess.run without check=True: the exit status is ignored
Propagate_Continue(ok, i) ==
    IF i = MaxProjects THEN [pc |-> "done", idx |-> i + 1]
    ELSE [pc |-> "loop", idx |-> i + 1]

\* subprocess.run(..., check=True) inside the for loop: a non-zero exit
\* raises CalledProcessError, which nothing catches; otherwise the loop
\* moves to the next project and the command ends after the last one
Propagate(ok, i) ==
    IF ~ok THEN [pc |-> "error", idx |-> i]
    ELSE IF i = MaxProjects THEN [pc |-> "done", idx |-> i + 1]
    ELSE [pc |-> "loop", idx |-> i + 1]

\* the update-only body falling back to a clone, as the clone policy does
update_repo_Clones(f, i, rc) ==
    clone_or_update_repo(f, i, <<>>, FALSE, rc, FALSE)

\* lines 182-187: the body of the update-only loop
update_repo(f, i, rc) ==
    LET path == repo_path(i)
    IN IF Exists(f, path)
       THEN [fs |-> f, events |-> <<Ev("pull", i, path, rc)>>, ok |-> rc = 0]
       ELSE [fs |-> f, events |-> <<Ev("skip", i, path, 0)>>, ok |-> TRUE]

(* ------------------------------ commands ------------------------------- *)

\* a command is a process of its own: it starts when none is running
NewProcess == pc # "loop"

\* config --url u --token t
config(u, t) ==
    /\ NewProcess
    /\ command' = "config"
    /\ IF BeforeSetOk(u) /\ BeforeSetOk(t)
       THEN /\ configFile' = WriteConfig(u, t)
            /\ lastSave' = <<u, t>>
            /\ pc' = "done"
       ELSE \* line 44 raises ValueError before the file is opened
            /\ UNCHANGED <<configFile, lastSave>>
            /\ pc' = "error"
    /\ url' = None /\ token' = None /\ gl' = NoSession
    /\ idx' = 0 /\ log' = <<>> /\ fs0' = fs
    /\ UNCHANGED <<env, fs>>

\* what every command but config does first: gl = get_gitlab_instance()
Connect(cmd, e, r) ==
    /\ NewProcess
    /\ command' = cmd
    /\ env' = e
    /\ url' = r.url /\ token' = r.token /\ gl' = r.gl
    /\ fs0' = fs
    /\ UNCHANGED <<configFile, lastSave, fs>>

check(e, auth) ==
    \E r \in {get_gitlab_instance(configFile, e, auth)} :
       /\ Connect("check", e, r)
       /\ log' = r.events
       /\ idx' = 0
       /\ pc' = IF r.raised THEN "error" ELSE "done"

\* the table is printed from the listing and changes nothing
list_repos(e, auth) ==
    \E r \in {get_gitlab_instance(configFile, e, auth)} :
       /\ Connect("list_repos", e, r)
       /\ log' = IF r.gl.session THEN r.events \o <<Ev("list", 0, <<>>, 0)>>
                 ELSE r.events
       /\ idx' = 0
       /\ pc' = IF r.raised THEN "error" ELSE "done"

\* a repo command that does not test gl before it lists
StartRepoCommand_NoGuard(cmd, e, auth) ==
    \E r \in {get_gitlab_instance(configFile, e, auth)} :
       /\ Connect(cmd, e, r)
       /\ log' = r.events \o <<Ev("list", 0, <<>>, 0)>>
       /\ idx' = 1
       /\ pc' = "loop"

\* the three repo commands up to the for loop: connect, then list
StartRepoCommand(cmd, e, auth) ==
    \E r \in {get_gitlab_instance(configFile, e, auth)} :
       /\ Connect(cmd, e, r)
       /\ IF r.gl.session
          THEN /\ log' = r.events \o <<Ev("list", 0, <<>>, 0)>>
               /\ idx' = 1
               /\ pc' = IF MaxProjects = 0 THEN "done" ELSE "loop"
          ELSE /\ log' = r.events
               /\ idx' = 0
               /\ pc' = IF r.raised THEN "error" ELSE "done"

\* one iteration of a for loop whose body made the calls r.events
Iterate(body) ==
    \E r \in {body} :
    /\ fs' = r.fs
    /\ log' = log \o r.events
    /\ pc' = Propagate(r.ok, idx).pc
    /\ idx' = Propagate(r.ok, idx).idx
    /\ UNCHANGED <<configFile, env, url, token, gl, lastSave, command, fs0>>

\* lines 156-158 (clone) and 169-171 (clone_overwrite)
MakeAndClone(overwrite, rc, partial) ==
    LET parent == dirname(repo_path(idx))
        r == clone_or_update_repo(makedirs(fs, parent), idx, gl.private_token,
                                  overwrite, rc, partial)
    IN [fs |-> r.fs, ok |-> r.ok,
        events |-> <<Ev("makedirs", idx, parent, 0)>> \o r.events]

clone(e, auth) == StartRepoCommand("clone", e, auth)

clone_loop(rc, partial) ==
    /\ pc = "loop" /\ command = "clone"
    /\ Iterate(MakeAndClone(FALSE, rc, partial))

clone_overwrite(e, auth) == StartRepoCommand("clone_overwrite", e, auth)

clone_overwrite_loop(rc, partial) ==
    /\ pc = "loop" /\ command = "clone_overwrite"
    /\ Iterate(MakeAndClone(TRUE, rc, partial))

clone_update(e, auth) == StartRepoCommand("clone_update", e, auth)

clone_update_loop(rc) ==
    /\ pc = "loop" /\ command = "clone_update"
    /\ Iterate(update_repo(fs, idx, rc))

(* --------------------------- specifications ---------------------------- *)

ExitCodes == {0, 1}

\* the trees a command can find under the --dir argument
InitialFs == {f \in [Paths -> {"absent", "dir", "repo"}] : IsTree(f)}

EmptyFs == [p \in Paths |-> "absent"]

\* the environments of the synchronisation runs
SyncEnvs == {EnvOf(None, None), EnvOf(<<"e">>, <<"e">>)}

InitCommon ==
    /\ env = EnvOf(None, None)
    /\ url = None /\ token = None /\ gl = NoSession
    /\ command = "none" /\ pc = "start" /\ idx = 0
    /\ fs0 = fs /\ log = <<>>

\* synchronisation: any tree, with or without a saved configuration
Init ==
    /\ \/ configFile = NoFile /\ lastSave = <<None, None>>
       \/ configFile = WriteConfig(<<"a">>, <<"a">>) /\ lastSave = <<<<"a">>, <<"a">>>>
    /\ fs \in InitialFs
    /\ InitCommon

Next ==
    \/ \E e \in SyncEnvs, auth \in AuthOutcomes : check(e, auth)
    \/ \E e \in SyncEnvs, auth \in AuthOutcomes : list_repos(e, auth)
    \/ \E e \in SyncEnvs, auth \in AuthOutcomes : clone(e, auth)
    \/ \E e \in SyncEnvs, auth \in AuthOutcomes : clone_overwrite(e, auth)
    \/ \E e \in SyncEnvs, auth \in AuthOutcomes : clone_update(e, auth)
    \/ \E rc \in ExitCodes, partial \in BOOLEAN : clone_loop(rc, partial)
    \/ \E rc \in ExitCodes, partial \in BOOLEAN : clone_overwrite_loop(rc, partial)
    \/ \E rc \in ExitCodes : clone_update_loop(rc)

Spec == Init /\ [][Next]_vars

\* what is typed into the config command: every token up to MaxLen
\* characters, with an empty, an ordinary, an uninterpolatable and a blank url
TokenInputs == Strings(MaxLen)

UrlInputs == Strings(1)

\* credentials: no configuration yet; config and check in any order
InitCred ==
    /\ configFile = NoFile /\ lastSave = <<None, None>>
    /\ fs = EmptyFs
    /\ InitCommon

NextCred ==
    \/ \E u \in UrlInputs, t \in TokenInputs : config(u, t)
    \/ \E e \in Envs, auth \in AuthOutcomes : check(e, auth)

SpecCred == InitCred /\ [][NextCred]_vars

(* ------------------------------ properties ----------------------------- *)

GitOps == {"clone", "pull"}

\* the events of the running command that concern project i
EventsOf(i) == {k \in DOMAIN log : log[k].proj = i}

\* project i has been through the loop body of the running command
Processed(i) == gl.session /\ (i < idx \/ (pc = "error" /\ i = idx))

\* the raw values the config file holds, as config.get returns them
FileUrl == ConfigGet(load_config(configFile), KeyUrl)

FileToken == ConfigGet(load_config(configFile), KeyToken)

\* C1: an update-only run never clones, creates or removes: a project
\* whose destination is missing is only reported as skipped, and every
\* path that exists during the run existed before it.
C1_UpdateNeverClones ==
    command = "clone_update" =>
        /\ \A k \in DOMAIN log : log[k].op \notin {"clone", "makedirs", "rmtree"}
        /\ \A i \in Projects :
              ~Exists(fs0, repo_path(i)) =>
                  \A k \in EventsOf(i) : log[k].op = "skip"
        /\ \A i \in Projects :
              (Processed(i) /\ ~Exists(fs0, repo_path(i))) => EventsOf(i) # {}
        /\ \A p \in Paths : Exists(fs, p) => Exists(fs0, p)

C1_Witness ==
    /\ command = "clone_update" /\ pc = "done" /\ gl.session
    /\ \E k \in DOMAIN log : log[k].op = "skip"
    /\ \E k \in DOMAIN log : log[k].op = "pull"
    /\ \E i \in Projects : ~Exists(fs, repo_path(i))

\* C2: in an overwrite run no pull is invoked, and the clone of a project
\* whose destination existed is preceded by the removal of that destination.
C2_RemoveBeforeClone ==
    command = "clone_overwrite" =>
        /\ \A k \in DOMAIN log : log[k].op # "pull"
        /\ \A k \in DOMAIN log :
              (log[k].op = "clone" /\ Exists(fs0, repo_path(log[k].proj))) =>
                  \E j \in 1..(k - 1) :
                      /\ log[j].op = "rmtree"
                      /\ log[j].proj = log[k].proj
                      /\ log[j].arg = repo_path(log[k].proj)

C2_Witness ==
    /\ command = "clone_overwrite" /\ pc = "done"
    /\ \E k \in DOMAIN log : log[k].op = "rmtree"
    /\ \E i \in Projects : ~Exists(fs0, repo_path(i)) /\ fs[repo_path(i)] = "repo"

\* C3: in a clone run nothing is removed, a clone is invoked only for a
\* project whose destination was missing, and a processed project whose
\* destination existed got exactly one pull and kept its directory.
C3_ExistingIsPulled ==
    command = "clone" =>
        /\ \A k \in DOMAIN log : log[k].op # "rmtree"
        /\ \A k \in DOMAIN log :
              log[k].op = "clone" => ~Exists(fs0, repo_path(log[k].proj))
        /\ \A i \in Projects :
              (Processed(i) /\ Exists(fs0, repo_path(i))) =>
                  /\ Cardinality({k \in EventsOf(i) : log[k].op = "pull"}) = 1
                  /\ \A k \in EventsOf(i) : log[k].op \in {"makedirs", "pull"}
                  /\ fs[repo_path(i)] = fs0[repo_path(i)]

C3_Witness ==
    /\ command = "clone" /\ pc = "done"
    /\ \E k \in DOMAIN log : log[k].op = "pull"
    /\ \E k \in DOMAIN log : log[k].op = "clone"

\* C4: a git command that exits non-zero is the last thing its run does:
\* the run is in the error state at that project, the project got that one
\* git invocation only, and no later project has any call made for it or
\* any change to its destination.
C4_FailFast ==
    /\ \A k \in DOMAIN log :
          (log[k].op \in GitOps /\ log[k].rc # 0) =>
              /\ k = Len(log)
              /\ pc = "error"
              /\ log[k].proj = idx
    /\ \A i \in Projects :
          Cardinality({k \in EventsOf(i) : log[k].op \in GitOps}) <= 1
    /\ pc = "error" =>
          /\ Len(log) > 0
          /\ log[Len(log)].op \in GitOps /\ log[Len(log)].rc # 0
          /\ \A j \in Projects :
                j > idx => EventsOf(j) = {} /\ fs[repo_path(j)] = fs0[repo_path(j)]

C4_Witness ==
    /\ pc = "error" /\ idx < MaxProjects
    /\ log[Len(log)].op \in GitOps /\ log[Len(log)].rc # 0
    /\ \E j \in Projects : j > idx /\ ~Exists(fs, repo_path(j))
    /\ \E j \in Projects : j > idx /\ Exists(fs, repo_path(j))

\* C5 as stated: a set environment variable always wins over the value the
\* config file holds for the same field.
C5_EnvSetWins ==
    command = "check" =>
        /\ (env.GITLAB_URL # None /\ FileUrl # None) => url = env.GITLAB_URL
        /\ (env.GITLAB_TOKEN # None /\ FileToken # None) => token = env.GITLAB_TOKEN

\* C5 amended: an environment variable set to a non-empty value wins over
\* the value the config file holds for the same field.
C5_EnvNonEmptyWins ==
    command = "check" =>
        /\ (~Falsy(env.GITLAB_URL) /\ FileUrl # None) => url = env.GITLAB_URL
        /\ (~Falsy(env.GITLAB_TOKEN) /\ FileToken # None) =>
              token = env.GITLAB_TOKEN

C5_Witness ==
    /\ command = "check"
    /\ env.GITLAB_URL = <<"e">> /\ FileUrl = <<"a">> /\ url = <<"e">>
    /\ env.GITLAB_TOKEN = <<"e">> /\ FileToken = <<"%">> /\ token = <<"e">>

\* both variables are set in the environment
EnvSuppliesBoth == env.GITLAB_URL # None /\ env.GITLAB_TOKEN # None

\* the config file holds a non-empty url and a non-empty token
FileSuppliesBoth == ~Falsy(FileUrl) /\ ~Falsy(FileToken)

\* the missing-credentials outcome: line 62 returned None, no session was
\* built and no authentication call was made
MissingCredentials == ~gl.session /\ log = <<>>

\* C6 as stated: when neither the environment nor the config file supplies
\* both fields, loading ends in the missing-credentials outcome.
C6_NeitherSourceComplete ==
    (command = "check" /\ ~EnvSuppliesBoth /\ ~FileSuppliesBoth) =>
        MissingCredentials

\* C6 amended: when for some field neither the environment nor the config
\* file supplies a non-empty value, loading ends in the missing-credentials
\* outcome.
C6_FieldMissingEverywhere ==
    (/\ command = "check"
     /\ \/ Falsy(env.GITLAB_URL) /\ Falsy(FileUrl)
        \/ Falsy(env.GITLAB_TOKEN) /\ Falsy(FileToken)) =>
        MissingCredentials

C6_Witness ==
    /\ command = "check"
    /\ Falsy(env.GITLAB_URL) /\ Falsy(FileUrl)
    /\ env.GITLAB_TOKEN = None /\ FileToken = <<"a">>
    /\ MissingCredentials

\* C7: a command that got no session ends normally having made no call but
\* the authentication attempt and having changed nothing on disk; with a
\* missing url or token it made no call at all.
C7_NoSessionNoEffect ==
    (/\ command \in {"check", "list_repos", "clone", "clone_overwrite",
                     "clone_update"}
     /\ ~gl.session) =>
        /\ pc = "done"
        /\ \A k \in DOMAIN log : log[k].op = "auth"
        /\ Len(log) <= 1
        /\ fs = fs0
        /\ (Falsy(url) \/ Falsy(token)) => log = <<>>

C7_Witness ==
    /\ command = "clone_overwrite" /\ ~gl.session /\ pc = "done"
    /\ Len(log) = 1 /\ log[1].op = "auth" /\ log[1].rc # 0
    /\ \E i \in Projects : Exists(fs, repo_path(i))

\* the URL has the token in its credential slot, right after the scheme
EmbedsToken(u, tok) ==
    \E i \in 1..(Len(u) - 2) :
        /\ SubSeq(u, i, i + 2) = <<":", "/", "/">>
        /\ StartsWith(SubSeq(u, i + 3, Len(u)), Credential(tok))

\* C8: every git clone is invoked with a URL that embeds the session's
\* token, whatever the scheme of the project's URL.
C8_CloneUrlEmbedsToken ==
    \A k \in DOMAIN log :
        log[k].op = "clone" => EmbedsToken(log[k].arg, gl.private_token)

\* C9: a check with GITLAB_URL and GITLAB_TOKEN unset that loads
\* credentials loads exactly the url and the token of the last save that
\* wrote the config file.
C9_SaveLoadRoundTrip ==
    (/\ command = "check"
     /\ env = EnvOf(None, None)
     /\ lastSave # <<None, None>>
     /\ ~Falsy(url) /\ ~Falsy(token)) =>
        <<url, token>> = lastSave

\* C10: when the clone that follows a removal fails in an overwrite run,
\* the run is in the error state and the working copy that was there is
\* gone: its destination is missing, or holds what the failed clone left.
C10_OverwriteNotAtomic ==
    (/\ command = "clone_overwrite" /\ pc = "error" /\ idx \in Projects
     /\ Exists(fs0, repo_path(idx))) =>
        /\ Len(log) >= 2
        /\ log[Len(log)].op = "clone" /\ log[Len(log)].rc # 0
        /\ log[Len(log) - 1].op = "rmtree" /\ log[Len(log) - 1].proj = idx
        /\ fs[repo_path(idx)] \in {"absent", "partial"}

C10_Witness ==
    /\ command = "clone_overwrite" /\ pc = "error" /\ idx \in Projects
    /\ fs0[repo_path(idx)] = "repo"
    /\ fs[repo_path(idx)] = "absent"

====
